---- MODULE Spec2Model ----
(***************************************************************************)
(* Giessen events aggregator: the orchestrator (main) with its cache, the   *)
(* date resolver (getDateRange), the provider adapters (fetchTicketmaster, *)
(* fetchGiessenDe, fetchMeetup, fetchDeskline) and the deduplicator        *)
(* (dedup).                                                                *)
(*                                                                         *)
(* JavaScript strings are sequences of one-character strings, so that      *)
(* slice, replace and toLowerCase are computed character by character.     *)
(* null is the value Null; an object reference is a natural number and     *)
(* the heap maps references to records.                                    *)
(***************************************************************************)
EXTENDS Integers, Sequences, FiniteSets, TLC

\* ------------------------------------------------------------------ strings

\* JavaScript null (also used for undefined: the code only tests truthiness).
Null == <<"null">>

\* JavaScript truthiness of a string-or-null value: null and '' are falsy.
Truthy(s) == s # Null /\ s # <<>>

\* v || '' : the value when truthy, else the empty string.
OrEmpty(s) == IF Truthy(s) THEN s ELSE <<>>

\* String.prototype.slice(0, n)
SliceTo(s, n) == SubSeq(s, 1, IF Len(s) < n THEN Len(s) ELSE n)

UpperChars ==
  <<"A","B","C","D","E","F","G","H","I","J","K","L","M","N","O","P","Q","R",
    "S","T","U","V","W","X","Y","Z","Ä","Ö","Ü">>

LowerChars ==
  <<"a","b","c","d","e","f","g","h","i","j","k","l","m","n","o","p","q","r",
    "s","t","u","v","w","x","y","z","ä","ö","ü">>

DigitChars == <<"0","1","2","3","4","5","6","7","8","9">>

IndexIn(c, chars) == CHOOSE i \in 1..Len(chars) : chars[i] = c

Chars(chars) == {chars[i] : i \in 1..Len(chars)}

UpperSet == Chars(UpperChars)

LowerSet == Chars(LowerChars)

DigitSet == Chars(DigitChars)

LowerOf == [c \in UpperSet |-> LowerChars[IndexIn(c, UpperChars)]]

DigitOf == [c \in DigitSet |-> IndexIn(c, DigitChars) - 1]

\* String.prototype.toLowerCase, one character.
LowerChar(c) == IF c \in UpperSet THEN LowerOf[c] ELSE c

ToLowerCase(s) == [i \in 1..Len(s) |-> LowerChar(s[i])]

\* The character class [a-zäöüß0-9] of the identity key.
KeyChar(c) == c \in LowerSet \/ c = "ß" \/ c \in DigitSet

\* replace(/[^a-zäöüß0-9]/g, '')
RECURSIVE StripNonKey(_)
StripNonKey(s) ==
  IF s = <<>> THEN <<>>
  ELSE (IF KeyChar(Head(s)) THEN <<Head(s)>> ELSE <<>>) \o StripNonKey(Tail(s))

\* White space as String.prototype.trim and \s see it.
IsSpace(c) == c = " "

RECURSIVE TrimStart(_)
TrimStart(s) == IF s # <<>> /\ IsSpace(Head(s)) THEN TrimStart(Tail(s)) ELSE s

RECURSIVE TrimEnd(_)
TrimEnd(s) ==
  IF s # <<>> /\ IsSpace(s[Len(s)]) THEN TrimEnd(SubSeq(s, 1, Len(s) - 1)) ELSE s

\* String.prototype.trim
Trim(s) == TrimEnd(TrimStart(s))

\* a || b on string-or-null values
Or(a, b) == IF Truthy(a) THEN a ELSE b

\* ------------------------------------------------------------- identity key

NameKeyLen == 40

DateKeyLen == 10

\* wrong: keeps the case of the name
KeyOfCaseSensitive(e) ==
  SliceTo(StripNonKey(OrEmpty(e.name)), NameKeyLen)
    \o <<"|">> \o SliceTo(OrEmpty(e.date), DateKeyLen)

\* The identity key of an event.
KeyOf(e) ==
  SliceTo(StripNonKey(ToLowerCase(OrEmpty(e.name))), NameKeyLen)
    \o <<"|">> \o SliceTo(OrEmpty(e.date), DateKeyLen)

\* --------------------------------------------------------------- timestamps

\* A parsed time is <<"num", n>>, <<"NaN">> or <<"Infinity">>.
NaN == <<"NaN">>

Infinity == <<"Infinity">>

Num(n) == <<"num", n>>

AllDigits(s) == \A i \in 1..Len(s) : s[i] \in DigitSet

RECURSIVE DecVal(_)
DecVal(s) ==
  IF s = <<>> THEN 0
  ELSE 10 * DecVal(SubSeq(s, 1, Len(s) - 1)) + DigitOf[s[Len(s)]]

\* The calendar fields of YYYY-MM-DD, or <<>> when the text is not of that form.
DateFields(s) ==
  IF /\ Len(s) = 10
     /\ s[5] = "-" /\ s[8] = "-"
     /\ AllDigits(SubSeq(s, 1, 4)) /\ AllDigits(SubSeq(s, 6, 7))
     /\ AllDigits(SubSeq(s, 9, 10))
  THEN <<DecVal(SubSeq(s, 1, 4)), DecVal(SubSeq(s, 6, 7)), DecVal(SubSeq(s, 9, 10))>>
  ELSE <<>>

\* The clock fields of THH:MM:SS, or <<>> when the text is not of that form.
TimeFields(s) ==
  IF /\ Len(s) = 9
     /\ s[1] = "T" /\ s[4] = ":" /\ s[7] = ":"
     /\ AllDigits(SubSeq(s, 2, 3)) /\ AllDigits(SubSeq(s, 5, 6))
     /\ AllDigits(SubSeq(s, 8, 9))
  THEN <<DecVal(SubSeq(s, 2, 3)), DecVal(SubSeq(s, 5, 6)), DecVal(SubSeq(s, 8, 9))>>
  ELSE <<>>

\* Seconds since 1970 on a calendar of 12 months of 31 days: it orders valid
\* dates as the epoch milliseconds of Date.prototype.getTime do.
Seconds(d, t) ==
  (((((d[1] - 1970) * 12 + (d[2] - 1)) * 31 + (d[3] - 1)) * 24 + t[1]) * 60 + t[2]) * 60
    + t[3]

ValidDate(d) == d # <<>> /\ d[2] \in 1..12 /\ d[3] \in 1..31

ValidTime(t) == t # <<>> /\ t[1] \in 0..23 /\ t[2] \in 0..59 /\ t[3] \in 0..59

\* new Date(str).getTime() for the date strings the adapters emit:
\* YYYY-MM-DD and YYYY-MM-DDTHH:MM:SS give a number, anything else NaN.
GetTime(s) ==
  IF Len(s) = 10 THEN
    (IF ValidDate(DateFields(s)) THEN Num(Seconds(DateFields(s), <<0, 0, 0>>)) ELSE NaN)
  ELSE IF Len(s) = 19 THEN
    (LET d == DateFields(SubSeq(s, 1, 10))
         t == TimeFields(SubSeq(s, 11, 19))
     IN IF ValidDate(d) /\ ValidTime(t) THEN Num(Seconds(d, t)) ELSE NaN)
  ELSE NaN

\* a.date ? new Date(a.date).getTime() : Infinity
SortTime(e) == IF Truthy(e.date) THEN GetTime(e.date) ELSE Infinity

\* da - db as the sort sees it: -1, 0 or 1, where a NaN difference
\* (Infinity - Infinity, or a NaN operand) counts as 0.
Minus(da, db) ==
  IF da = NaN \/ db = NaN THEN 0
  ELSE IF da = Infinity THEN (IF db = Infinity THEN 0 ELSE 1)
  ELSE IF db = Infinity THEN -1
  ELSE IF da[2] < db[2] THEN -1
  ELSE IF da[2] > db[2] THEN 1
  ELSE 0

\* wrong: ties compare as "less", so equal events are swapped
CompareTiesLess(a, b) == IF Minus(SortTime(a), SortTime(b)) > 0 THEN 1 ELSE -1

\* The comparator handed to Array.prototype.sort.
Compare(a, b) == Minus(SortTime(a), SortTime(b))

\* -------------------------------------------------------------------- dates

\* A JavaScript Date in local time: the day counted from 1970-01-01 and the
\* milliseconds since midnight; valid is FALSE for an Invalid Date.
DateAt(day, ms) == [valid |-> TRUE, day |-> day, ms |-> ms]

InvalidDate == [valid |-> FALSE, day |-> 0, ms |-> 0]

\* The last millisecond of a day, 23:59:59.999.
EndOfDayMs == 86399999

\* Days from 1970-01-01 to the civil date y-m-d (proleptic Gregorian); a day
\* beyond the end of the month counts on into the next one.
DaysFromCivil(y, m, d) ==
  LET yy == IF m <= 2 THEN y - 1 ELSE y
      era == yy \div 400
      yoe == yy - era * 400
      mp == IF m > 2 THEN m - 3 ELSE m + 9
      doy == (153 * mp + 2) \div 5 + d - 1
      doe == yoe * 365 + yoe \div 4 - yoe \div 100 + doy
  IN era * 146097 + doe - 719468

IsLeapYear(y) == y % 400 = 0 \/ (y % 4 = 0 /\ y % 100 # 0)

DaysInMonth(y, m) ==
  IF m = 2 THEN (IF IsLeapYear(y) THEN 29 ELSE 28)
  ELSE IF m \in {4, 6, 9, 11} THEN 30
  ELSE 31

\* parseISO of date-fns on a text of the form YYYY-MM-DD or on a text that
\* does not start with a digit: local midnight of a date of the calendar,
\* Invalid Date for anything else.
parseISO(s) ==
  LET d == DateFields(s)
  IN IF d # <<>> /\ d[2] \in 1..12 /\ d[3] \in 1..DaysInMonth(d[1], d[2])
     THEN DateAt(DaysFromCivil(d[1], d[2], d[3]), 0)
     ELSE InvalidDate

startOfDay(d) == IF d.valid THEN DateAt(d.day, 0) ELSE InvalidDate

endOfDay(d) == IF d.valid THEN DateAt(d.day, EndOfDayMs) ELSE InvalidDate

addDays(d, n) == IF d.valid THEN DateAt(d.day + n, d.ms) ELSE InvalidDate

\* Date.prototype.getDay: 0 is Sunday; 1970-01-01 was a Thursday.
getDay(d) == (d.day + 4) % 7

\* a.getTime() < b.getTime(); a comparison with NaN is false.
Before(a, b) ==
  a.valid /\ b.valid /\ (a.day < b.day \/ (a.day = b.day /\ a.ms < b.ms))

\* String.prototype.includes, one character
Includes(s, c) == \E i \in 1..Len(s) : s[i] = c

\* Position of the first c in s, Len(s) + 1 when there is none.
RECURSIVE IndexOfChar(_, _, _)
IndexOfChar(s, c, i) ==
  IF i > Len(s) \/ s[i] = c THEN i ELSE IndexOfChar(s, c, i + 1)

\* String.prototype.split, one character as the separator
RECURSIVE Split(_, _)
Split(s, c) ==
  LET i == IndexOfChar(s, c, 1)
  IN IF i > Len(s) THEN <<s>>
     ELSE <<SubSeq(s, 1, i - 1)>> \o Split(SubSeq(s, i + 1, Len(s)), c)

Today == <<"t","o","d","a","y">>

Weekend == <<"w","e","e","k","e","n","d">>

\* wrong: on a Saturday the weekend starts the same day
DaysUntilSatSameDay(now) == (6 - getDay(now) + 7) % 7

\* (6 - now.getDay() + 7) % 7 || 7
DaysUntilSat(now) ==
  IF (6 - getDay(now) + 7) % 7 # 0 THEN (6 - getDay(now) + 7) % 7 ELSE 7

\* getDateRange(dateStr) at the time now.
getDateRange(dateStr, now) ==
  IF ~Truthy(dateStr)
  THEN [start |-> startOfDay(now), end |-> endOfDay(addDays(now, 7))]
  ELSE IF Includes(dateStr, ":")
  THEN LET parts == Split(dateStr, ":")
       IN [start |-> startOfDay(parseISO(parts[1])),
           end |-> endOfDay(parseISO(parts[2]))]
  ELSE IF dateStr = Today
  THEN [start |-> startOfDay(now), end |-> endOfDay(now)]
  ELSE IF dateStr = Weekend
  THEN LET sat == addDays(now, DaysUntilSat(now))
       IN [start |-> startOfDay(sat), end |-> endOfDay(addDays(sat, 1))]
  ELSE [start |-> startOfDay(parseISO(dateStr)),
        end |-> endOfDay(parseISO(dateStr))]

\* --------------------------------------------------- Array.prototype.sort

\* Array.prototype.sort of node:20 (V8 TimSort) on an array of references,
\* for arrays shorter than 64 elements: the leading run is found (and
\* reversed when strictly descending), the rest is inserted by binary
\* insertion. arr holds references into heap h.

Reverse(s) == [i \in 1..Len(s) |-> s[Len(s) + 1 - i]]

\* Last index (1-based) of the run that starts at 1, scanning from idx.
RECURSIVE RunEnd(_, _, _, _)
RunEnd(arr, h, desc, idx) ==
  IF idx > Len(arr) THEN idx - 1
  ELSE LET order == Compare(h[arr[idx]], h[arr[idx - 1]])
       IN IF (desc /\ order >= 0) \/ (~desc /\ order < 0)
          THEN idx - 1
          ELSE RunEnd(arr, h, desc, idx + 1)

\* Insertion point (0-based) of pivot in arr[left..right-1].
RECURSIVE BinarySearch(_, _, _, _, _)
BinarySearch(arr, h, pivot, left, right) ==
  IF left >= right THEN left
  ELSE LET mid == left + ((right - left) \div 2)
       IN IF Compare(h[pivot], h[arr[mid + 1]]) < 0
          THEN BinarySearch(arr, h, pivot, left, mid)
          ELSE BinarySearch(arr, h, pivot, mid + 1, right)

\* Inserts arr[start+1 ..] (0-based start) one by one into the sorted prefix.
RECURSIVE BinaryInsertionSort(_, _, _)
BinaryInsertionSort(arr, h, start) ==
  IF start >= Len(arr) THEN arr
  ELSE LET pivot == arr[start + 1]
           left == BinarySearch(arr, h, pivot, 0, start)
           moved == SubSeq(arr, 1, left) \o <<pivot>>
                      \o SubSeq(arr, left + 1, start)
                      \o SubSeq(arr, start + 2, Len(arr))
       IN BinaryInsertionSort(moved, h, start + 1)

SortByDate(arr, h) ==
  IF Len(arr) < 2 THEN arr
  ELSE LET desc == Compare(h[arr[2]], h[arr[1]]) < 0
           run == RunEnd(arr, h, desc, 3)
           made == IF desc
                   THEN Reverse(SubSeq(arr, 1, run)) \o SubSeq(arr, run + 1, Len(arr))
                   ELSE arr
       IN BinaryInsertionSort(made, h, run)

\* -------------------------------------------------------------------- dedup

SourceSep == <<",", " ">>

\* The else branch of the loop: the canonical record ex after a duplicate e.
Merge(ex, e) ==
  [ex EXCEPT !.price = IF ~Truthy(@) /\ Truthy(e.price) THEN e.price ELSE @,
             !.venue = IF ~Truthy(@) /\ Truthy(e.venue) THEN e.venue ELSE @,
             !.source = @ \o SourceSep \o e.source]

\* Position in the Map's insertion order of the entry with this key, 0 if none.
SeenAt(seen, h, key) ==
  IF \E i \in 1..Len(seen) : KeyOf(h[seen[i]]) = key
  THEN CHOOSE i \in 1..Len(seen) : KeyOf(h[seen[i]]) = key
  ELSE 0

\* The for loop of dedup from index i on. seen is the Map's values in
\* insertion order (the key of an entry is the key of its record, which the
\* merge leaves alone). The loop writes through the references, so the heap
\* is threaded through.
RECURSIVE DedupLoop(_, _, _, _)
DedupLoop(evs, i, seen, h) ==
  IF i > Len(evs) THEN [seen |-> seen, heap |-> h]
  ELSE LET e == h[evs[i]]
           at == SeenAt(seen, h, KeyOf(e))
       IN IF at = 0
          THEN DedupLoop(evs, i + 1, Append(seen, evs[i]), h)
          ELSE DedupLoop(evs, i + 1, seen,
                         [h EXCEPT ![seen[at]] = Merge(h[seen[at]], e)])

\* dedup(events): the returned array of references and the heap afterwards.
dedup(evs, h) ==
  LET merged == DedupLoop(evs, 1, <<>>, h)
  IN [out |-> SortByDate(merged.seen, merged.heap), heap |-> merged.heap]

\* The records an array of references points to.
Deref(arr, h) == [i \in 1..Len(arr) |-> h[arr[i]]]

\* ------------------------------------------------------------------- state

VARIABLES
  events,      \* dedup: the array passed in (references)
  heapIn,      \* dedup: the heap when dedup is called
  first,       \* dedup: the array returned by dedup(events)
  heapFirst,   \* dedup: the heap after dedup(events)
  second,      \* dedup: the array returned by dedup(dedup(events))
  heapSecond,  \* dedup: the heap after the second call
  calls,       \* dedup: number of calls made so far
  pc,          \* main: "start", "resolved" (dateRange and cacheKey are there),
               \*       "awaiting" (at await Promise.allSettled), "done"
  opts,        \* main: the parsed options
  settled,     \* main: the promise of each provider, in configuration order
  settleOrder, \* main: the providers in the order their promises settled
  allEvents,   \* main: allEvents after results.forEach, before dedup
  output,      \* main: what console.log printed, <<>> while nothing is printed
  cache,       \* main: the payload written by writeCache, <<>> while none is
  exitCode,    \* main: the exit status, -1 while the process runs
  runs,        \* main: number of runs of the program started so far
  cachedFrom,  \* history: the provider results behind the cache entry, <<>>
               \*          when there is no entry or its origin is not known
  adapter,     \* adapter call: the function called
  arg,         \* adapter call: what it is called with (API key set, cityKey)
  response,    \* adapter call: <<>>, then what axios.get resolved to
  at,          \* adapter call: the position in the function, "ended" at the end
  browser,     \* fetchDeskline: the variable browser, "undefined" or "launched"
  session,     \* fetchDeskline: the browser process
  frames,      \* fetchDeskline: the frames of page.frames() not yet visited
  found,       \* fetchDeskline: the local array events
  completion,  \* adapter call: the completion held while finally runs
  result,      \* adapter call: how the call ended: a returned value or a throw
  now,         \* getDateRange: the value of new Date()
  dateStr,     \* getDateRange: the argument
  range        \* getDateRange: <<>> before the call, then the returned range

dedupVars == <<events, heapIn, first, heapFirst, second, heapSecond, calls>>

mainVars ==
  <<pc, opts, settled, settleOrder, allEvents, output, cache, exitCode, runs,
    cachedFrom>>

adapterVars ==
  <<adapter, arg, response, at, browser, session, frames, found, completion,
    result>>

dateVars == <<now, dateStr, range>>

vars == <<dedupVars, mainVars, adapterVars, dateVars>>

\* --------------------------------------------------------- inputs of dedup

MaxEvents == 3

Repeat(c, n) == [i \in 1..n |-> c]

Stadtfest == <<"S","t","a","d","t","f","e","s","t">>

StadtfestBang == <<"s","t","a","d","t","f","e","s","t","!">>

Konzert == <<"K","o","n","z","e","r","t">>

Lesung == <<"L","e","s","u","n","g">>

\* Two names that agree on their first NameKeyLen key characters.
LongNameA == Repeat("x", NameKeyLen) \o <<"a">>

LongNameB == Repeat("x", NameKeyLen) \o <<"b">>

June1At18 == <<"2","0","2","6","-","0","6","-","0","1","T","1","8",":","0","0",":","0","0">>

June1At20 == <<"2","0","2","6","-","0","6","-","0","1","T","2","0",":","0","0",":","0","0">>

June2 == <<"2","0","2","6","-","0","6","-","0","2">>

\* A date text no adapter normalised (fetchMeetup and fetchDeskline pass the
\* text of a time element through).
Morgen == <<"m","o","r","g","e","n">>

SrcA == <<"a">>

SrcB == <<"b">>

Event(name, date, venue, address, url, price, source, description) ==
  [name |-> name, date |-> date, venue |-> venue, address |-> address,
   type |-> "other", url |-> url, price |-> price, source |-> source,
   description |-> description]

Bare(name, date, source) == Event(name, date, Null, Null, Null, Null, source, Null)

Full(name, date, source) ==
  Event(name, date, <<"v">>, <<"g">>, <<"u">>, <<"p">>, source, <<"d">>)

Priced(name, date, source) ==
  Event(name, date, Null, Null, Null, <<"q">>, source, Null)

\* Events whose keys collide through case, punctuation and the cut of the
\* date, with different fields known.
MergeNamed ==
  {<<Stadtfest, June1At18>>, <<StadtfestBang, June1At20>>, <<Stadtfest, June2>>}

MergePool ==
  UNION {{Bare(nd[1], nd[2], SrcA), Full(nd[1], nd[2], SrcB)} : nd \in MergeNamed}
    \cup {Priced(Stadtfest, June1At18, SrcA)}

\* Events whose keys collide through the cut of the name.
LongPool ==
  UNION {{Bare(n, Null, SrcA), Full(n, Null, SrcB)} : n \in {LongNameA, LongNameB}}

\* Events with distinct keys and equal, ordered, absent and unparsable dates.
SortPool ==
  {Bare(n, d, SrcA) : n \in {Konzert, Lesung},
                      d \in {June1At18, June2, Morgen, Null}}

Arrays(pool) == UNION {[1..n -> pool] : n \in 0..MaxEvents}

Refs(n) == [i \in 1..n |-> i]

\* ------------------------------------------------------------ dedup, driven

MainIdle ==
  /\ pc = "idle" /\ opts = [type |-> "all", date |-> Null]
  /\ settled = <<>> /\ settleOrder = <<>>
  /\ allEvents = <<>> /\ output = <<>> /\ cache = <<>>
  /\ exitCode = -1
  /\ runs = 0 /\ cachedFrom = <<>>

AdapterIdle ==
  /\ adapter = "none" /\ arg = [apiKey |-> FALSE, cityKey |-> "none"]
  /\ response = <<>>
  /\ at = "idle" /\ browser = "undefined" /\ session = "none"
  /\ frames = <<>> /\ found = <<>>
  /\ completion = [kind |-> "none", status |-> "none", events |-> <<>>]
  /\ result = [kind |-> "none", status |-> "none", events |-> <<>>]

DedupIdle ==
  /\ events = <<>> /\ heapIn = <<>>
  /\ first = <<>> /\ heapFirst = <<>>
  /\ second = <<>> /\ heapSecond = <<>>
  /\ calls = 0

DateIdle == now = InvalidDate /\ dateStr = Null /\ range = <<>>

\* Fresh event objects: every element of the array is its own object.
InitDedup ==
  /\ MainIdle /\ AdapterIdle /\ DateIdle
  /\ \E pool \in {MergePool, LongPool, SortPool} : heapIn \in Arrays(pool)
  /\ events = Refs(Len(heapIn))
  /\ first = <<>> /\ heapFirst = <<>>
  /\ second = <<>> /\ heapSecond = <<>>
  /\ calls = 0

\* const first = dedup(events)
CallDedup ==
  /\ calls = 0
  /\ LET r == dedup(events, heapIn)
     IN first' = r.out /\ heapFirst' = r.heap
  /\ calls' = 1
  /\ UNCHANGED <<events, heapIn, second, heapSecond>>
  /\ UNCHANGED <<mainVars, adapterVars, dateVars>>

\* const second = dedup(first)
CallDedupAgain ==
  /\ calls = 1
  /\ LET r == dedup(first, heapFirst)
     IN second' = r.out /\ heapSecond' = r.heap
  /\ calls' = 2
  /\ UNCHANGED <<events, heapIn, first, heapFirst>>
  /\ UNCHANGED <<mainVars, adapterVars, dateVars>>

NextDedup == CallDedup \/ CallDedupAgain

SpecDedup == InitDedup /\ [][NextDedup]_vars

\* ---------------------------------------------------- properties of dedup

\* Input positions (references) of the events that share the key of input i.
SameKey(i) == {j \in 1..Len(events) : KeyOf(heapIn[j]) = KeyOf(heapIn[i])}

FirstOfKey(i) == \A j \in SameKey(i) : i <= j

MergedFields == {"date", "venue", "address", "url", "price", "description"}

\* C6: merging two events with the same identity key never loses a non-null
\* field: when the canonical (first) record lacks a field that a duplicate
\* carries, the merged record carries a value for it.
C6_MergeKeepsEveryField ==
  calls >= 1 =>
    \A i \in 1..Len(events) : \A j \in SameKey(i) : \A f \in MergedFields :
      (FirstOfKey(i) /\ heapIn[i][f] = Null /\ heapIn[j][f] # Null)
        => heapFirst[i][f] # Null

\* C7: dedup never mutates its input events: after the call every input
\* object has the field values it had before the call.
C7_InputsNotMutated ==
  calls >= 1 => \A r \in 1..Len(events) : heapFirst[r] = heapIn[r]

\* C8: dedup is idempotent: dedup(dedup(events)) is the same sequence as
\* dedup(events), the same objects in the same order with the same fields.
C8_Idempotent ==
  calls = 2 => second = first /\ Deref(second, heapSecond) = Deref(first, heapFirst)

\* A second pass over an output that came from a merge and holds two records
\* with the same start time.
C8_Witness ==
  /\ calls = 2 /\ Len(first) < Len(events) /\ Len(first) >= 2
  /\ SortTime(heapFirst[first[1]]) = SortTime(heapFirst[first[2]])

\* The identity key as the claim words it: the lower-cased name without the
\* characters outside [a-zäöüß0-9], cut to 40 characters, and the first 10
\* characters of the date string (empty when there is none).
ClaimedKey(e) ==
  LET name == IF e.name = Null THEN <<>> ELSE e.name
      kept == SelectSeq(ToLowerCase(name), LAMBDA c : KeyChar(c))
      day == IF e.date = Null THEN <<>> ELSE e.date
  IN <<SubSeq(kept, 1, IF Len(kept) > 40 THEN 40 ELSE Len(kept)),
       SubSeq(day, 1, IF Len(day) > 10 THEN 10 ELSE Len(day))>>

RECURSIVE JoinSources(_)
JoinSources(srcs) ==
  IF Len(srcs) = 1 THEN srcs[1]
  ELSE srcs[1] \o <<",", " ">> \o JoinSources(Tail(srcs))

\* The sources of the input events whose claimed key is that of input i, in
\* input order; keys[j] is the claimed key of input j.
SourcesOfKey(keys, i) ==
  LET idx == SelectSeq(Refs(Len(keys)), LAMBDA j : keys[j] = keys[i])
  IN [k \in 1..Len(idx) |-> heapIn[idx[k]].source]

\* C9: the output of dedup holds exactly one record per identity key of the
\* input; it is the first input occurrence of the key, and its sources are
\* the sources of all input events with that key, in input order.
C9_OneRecordPerKey ==
  calls >= 1 =>
    LET keys == [j \in 1..Len(events) |-> ClaimedKey(heapIn[j])]
    IN /\ \A k \in 1..Len(first) : first[k] \in 1..Len(events)
       /\ \A i \in 1..Len(events) :
            Cardinality({k \in 1..Len(first) : keys[first[k]] = keys[i]}) = 1
       /\ \A k \in 1..Len(first) :
            /\ \A j \in 1..(first[k] - 1) : keys[j] # keys[first[k]]
            /\ heapFirst[first[k]].name = heapIn[first[k]].name
            /\ heapFirst[first[k]].date = heapIn[first[k]].date
            /\ heapFirst[first[k]].source = JoinSources(SourcesOfKey(keys, first[k]))

\* The example of the claim: "Stadtfest" at 18:00 from a and "stadtfest!" at
\* 20:00 from b, the same day, come out as one record with sources a, b; a
\* third event is merged with a repeated source.
C9_Witness ==
  /\ calls >= 1 /\ Len(events) = 3 /\ Len(first) = 1
  /\ heapIn[1].name = Stadtfest /\ heapIn[1].date = June1At18
  /\ heapIn[2].name = StadtfestBang /\ heapIn[2].date = June1At20
  /\ heapFirst[first[1]].source = <<"a", ",", " ", "b", ",", " ", "a">>

HasStart(e) == SortTime(e)[1] = "num"

\* C10: the output of dedup is sorted ascending by start time, events
\* without a start time come after all that have one, and events with equal
\* start times (and the undated among themselves) keep their input order.
C10_SortedStable ==
  calls >= 1 =>
    \A a, b \in 1..Len(first) :
      a < b =>
        LET ea == heapFirst[first[a]]
            eb == heapFirst[first[b]]
        IN /\ (HasStart(ea) /\ HasStart(eb)) => SortTime(ea)[2] <= SortTime(eb)[2]
           /\ HasStart(eb) => ea.date # Null
           /\ ((HasStart(ea) /\ HasStart(eb) /\ SortTime(ea) = SortTime(eb))
                 \/ (ea.date = Null /\ eb.date = Null))
                => first[a] < first[b]

\* --------------------------------------------------- getDateRange, driven

MaxDays == 7

\* The first day of the times of now: Saturday, 2026-05-30.
FirstDay == DaysFromCivil(2026, 5, 30)

\* Times of now: midnight, noon and the last millisecond of MaxDays days.
Nows ==
  {DateAt(FirstDay + k, ms) : k \in 0..(MaxDays - 1),
                              ms \in {0, 12 * 3600 * 1000, EndOfDayMs}}

June1 == <<"2","0","2","6","-","0","6","-","0","1">>

June3 == <<"2","0","2","6","-","0","6","-","0","3">>

Month13 == <<"2","0","2","6","-","1","3","-","0","1">>

Feb30 == <<"2","0","2","6","-","0","2","-","3","0">>

Pair(a, b) == a \o <<":">> \o b

\* Values of --date: absent, the two words, single dates, pairs in order,
\* reversed and of one day, and texts that are none of these.
DateExprs ==
  {Null, Today, Weekend, June1, Pair(June1, June3), Pair(June3, June1),
   Pair(June2, June2), Morgen, Month13, Feb30, Pair(June1, Morgen),
   Pair(Pair(June1, June3), <<"x">>), <<":">>}

InitDates ==
  /\ MainIdle /\ AdapterIdle /\ DedupIdle
  /\ now \in Nows
  /\ dateStr \in DateExprs
  /\ range = <<>>

\* const dateRange = getDateRange(opts.date)
Resolve ==
  /\ range = <<>>
  /\ range' = <<getDateRange(dateStr, now)>>
  /\ UNCHANGED <<now, dateStr>>
  /\ UNCHANGED <<dedupVars, mainVars, adapterVars>>

NextDates == Resolve

SpecDates == InitDates /\ [][NextDates]_vars

\* ------------------------------------------- properties of getDateRange

\* A date of the calendar written YYYY-MM-DD.
IsIsoDate(s) ==
  LET d == DateFields(s)
  IN d # <<>> /\ d[2] \in 1..12 /\ d[3] \in 1..DaysInMonth(d[1], d[2])

\* The forms of a date expression: absent, "today", "weekend", one ISO date,
\* two ISO dates joined by a colon.
AcceptedExpr(s) ==
  \/ s = Null \/ s = Today \/ s = Weekend
  \/ IsIsoDate(s)
  \/ (Len(Split(s, ":")) = 2 /\ \A i \in 1..2 : IsIsoDate(Split(s, ":")[i]))

\* C12: every range returned for an accepted date expression, a pair whose
\* second date is the earlier one included, has start <= end.
C12_StartNotAfterEnd ==
  (range # <<>> /\ AcceptedExpr(dateStr)) =>
    /\ range[1].start.valid /\ range[1].end.valid
    /\ ~Before(range[1].end, range[1].start)

\* 2026-06-06 was a Saturday.
IsSaturday(day) == (day - DaysFromCivil(2026, 6, 6)) % 7 = 0

\* C14: for "weekend" the range starts at the start of the first Saturday
\* strictly after today (1 to 7 days ahead, on a Saturday the next one) and
\* ends at the end of the Sunday that follows it.
C14_NextWeekend ==
  (range # <<>> /\ dateStr = Weekend) =>
    LET sat == CHOOSE d \in (now.day + 1)..(now.day + 7) : IsSaturday(d)
    IN /\ range[1].start = DateAt(sat, 0)
       /\ range[1].end = DateAt(sat + 1, EndOfDayMs)

\* "weekend" resolved on a Saturday, late in the day.
C14_Witness ==
  /\ range # <<>> /\ dateStr = Weekend
  /\ IsSaturday(now.day) /\ now.ms = EndOfDayMs
  /\ range[1].start.day = now.day + 7

\* --------------------------------------------------------------------- main

\* The providers array of main: Ticketmaster, then Giessen.de.
NumProviders == 2

Providers == 1..NumProviders

MaxProviderEvents == 2

SrcTicketmaster == <<"t","i","c","k","e","t","m","a","s","t","e","r">>

SrcGiessenDe == <<"g","i","e","s","s","e","n",".","d","e">>

Typed(e, type) == [e EXCEPT !.type = type]

\* Events a provider can hand over: the first of each pool is the same
\* real-world event seen by both sources.
ProviderPool(i) ==
  IF i = 1
  THEN {Typed(Priced(Stadtfest, June1At18, SrcTicketmaster), "music"),
        Typed(Bare(Konzert, June2, SrcTicketmaster), "sports")}
  ELSE {Bare(StadtfestBang, June1At20, SrcGiessenDe),
        Bare(Lesung, Null, SrcGiessenDe)}

EventLists(pool) == UNION {[1..n -> pool] : n \in 0..MaxProviderEvents}

\* return { events, status: `ok (${events.length} Events)` }
OkResult(evs) == [events |-> evs, status |-> "ok"]

\* return { events: [], status: 'skip (kein API Key)' }
SkipResult == [events |-> <<>>, status |-> "skip"]

\* catch (e) { return { events: [], status: `error: ${e.message}` } }
ErrorResult == [events |-> <<>>, status |-> "error"]

NoValue == [events |-> <<>>, status |-> "none"]

Pending == [state |-> "pending", value |-> NoValue]

Fulfilled(v) == [state |-> "fulfilled", value |-> v]

Rejected == [state |-> "rejected", value |-> NoValue]

\* The ways the promise of provider i can settle. Only fetchTicketmaster has
\* a skip result. main takes any promise, a rejected one included.
Outcomes(i) ==
  {Fulfilled(OkResult(evs)) : evs \in EventLists(ProviderPool(i))}
    \cup {Fulfilled(ErrorResult), Rejected}
    \cup (IF i = 1 THEN {Fulfilled(SkipResult)} ELSE {})

IsSettled(p) == p.state # "pending"

\* wrong: Promise.race-like, resumes as soon as one provider has settled
AnySettledReady(ps) == \E i \in 1..Len(ps) : IsSettled(ps[i])

\* await Promise.allSettled(...): main resumes when no promise is pending.
AllSettledReady(ps) == \A i \in 1..Len(ps) : IsSettled(ps[i])

\* What one entry of results adds to allEvents.
Contribution(r) == IF r.state = "fulfilled" THEN r.value.events ELSE <<>>

RECURSIVE ConcatFrom(_, _, _)
ConcatFrom(ps, order, k) ==
  IF k > Len(order) THEN <<>>
  ELSE Contribution(ps[order[k]]) \o ConcatFrom(ps, order, k + 1)

\* wrong: pushes the events as the providers complete
CollectInCompletionOrder(ps) == ConcatFrom(ps, settleOrder, 1)

RECURSIVE CollectUntilFailureFrom(_, _)
CollectUntilFailureFrom(ps, k) ==
  IF k > Len(ps) \/ ps[k].state # "fulfilled" \/ ps[k].value.status = "error" THEN <<>>
  ELSE ps[k].value.events \o CollectUntilFailureFrom(ps, k + 1)

\* wrong: gives up at the first failed provider
CollectUntilFailure(ps) == CollectUntilFailureFrom(ps, 1)

\* results.forEach((r, i) => ...): allEvents after the loop.
Collect(ps) == ConcatFrom(ps, Refs(Len(ps)), 1)

\* dedup on an array of fresh objects, as values.
DedupValues(evs) ==
  LET r == dedup(Refs(Len(evs)), evs)
  IN Deref(r.out, r.heap)

\* allEvents.filter(e => e.type === opts.type || e.type === 'other')
TypeFilter(evs, type) ==
  IF type # "all"
  THEN SelectSeq(evs, LAMBDA e : e.type = type \/ e.type = "other")
  ELSE evs

\* dedup, then the filter of --type: what a run without a cache hit prints.
Shown(collected, type) == TypeFilter(DedupValues(collected), type)

\* What readCache can find under the key of this run: nothing (no file, or
\* one older than the TTL, which counts as none), or the list a run wrote.
CacheEntries ==
  {<<>>, <<(<<>>)>>, <<(<<Bare(Lesung, Null, SrcGiessenDe)>>)>>}

MaxRuns == 2

Types == {"all", "music"}

\* Values of --date of a run: absent, a text that is no date, and a pair of
\* dates with a third part.
RunDateExprs == {Null, Morgen, Pair(Pair(June1, June3), <<"x">>)}

\* format(date, ...) of date-fns throws a RangeError on an Invalid Date.
FormatThrows(d) == ~d.valid

\* The template literal of cacheKey formats start, then end.
CacheKeyThrows(r) == FormatThrows(r.start) \/ FormatThrows(r.end)

InitMain ==
  /\ pc = "start"
  /\ opts \in [type : Types, date : RunDateExprs]
  /\ settled = <<>> /\ settleOrder = <<>>
  /\ allEvents = <<>> /\ output = <<>>
  /\ cache \in CacheEntries
  /\ exitCode = -1
  /\ runs = 1
  /\ cachedFrom = <<>>

\* main up to readCache: getDateRange(opts.date), then the cache key. The
\* fault of format leaves main and main().catch ends the process with 1.
ResolveDates ==
  /\ pc = "start"
  /\ \E n \in Nows :
       IF CacheKeyThrows(getDateRange(opts.date, n))
       THEN pc' = "done" /\ exitCode' = 1
       ELSE pc' = "resolved" /\ UNCHANGED exitCode
  /\ UNCHANGED <<opts, settled, settleOrder, allEvents, output, cache, runs,
                 cachedFrom>>
  /\ UNCHANGED <<dedupVars, adapterVars, dateVars>>

\* readCache finds an entry older than CACHE_TTL_MS: it removes the file
\* and returns null.
CacheExpired ==
  /\ pc = "resolved"
  /\ cache # <<>>
  /\ cache' = <<>>
  /\ cachedFrom' = <<>>
  /\ UNCHANGED <<pc, opts, settled, settleOrder, allEvents, output, exitCode, runs>>
  /\ UNCHANGED <<dedupVars, adapterVars, dateVars>>

\* main with a cache hit: if (cached) { console.log(...); return; }
\* An array is truthy, the empty one too.
CacheHit ==
  /\ pc = "resolved"
  /\ cache # <<>>
  /\ output' = cache
  /\ pc' = "done"
  /\ exitCode' = 0
  /\ UNCHANGED <<opts, settled, settleOrder, allEvents, cache, runs, cachedFrom>>
  /\ UNCHANGED <<dedupVars, adapterVars, dateVars>>

\* main up to the await, on a cache miss: providers.map(p => p.fn()) starts
\* every provider.
Invoke ==
  /\ pc = "resolved"
  /\ cache = <<>>
  /\ settled' = [i \in Providers |-> Pending]
  /\ pc' = "awaiting"
  /\ UNCHANGED <<opts, settleOrder, allEvents, output, cache, exitCode, runs,
                 cachedFrom>>
  /\ UNCHANGED <<dedupVars, adapterVars, dateVars>>

\* The promise of provider i settles.
Settle(i) ==
  /\ pc = "awaiting"
  /\ ~IsSettled(settled[i])
  /\ \E o \in Outcomes(i) : settled' = [settled EXCEPT ![i] = o]
  /\ settleOrder' = Append(settleOrder, i)
  /\ UNCHANGED <<pc, opts, allEvents, output, cache, exitCode, runs, cachedFrom>>
  /\ UNCHANGED <<dedupVars, adapterVars, dateVars>>

\* main after the await: collect, dedup, filter, write the cache, print.
Resume ==
  /\ pc = "awaiting"
  /\ AllSettledReady(settled)
  /\ LET collected == Collect(settled)
         shown == Shown(collected, opts.type)
     IN /\ allEvents' = collected
        /\ cache' = <<shown>>
        /\ output' = <<shown>>
  /\ cachedFrom' = settled
  /\ pc' = "done"
  /\ exitCode' = 0
  /\ UNCHANGED <<opts, settled, settleOrder, runs>>
  /\ UNCHANGED <<dedupVars, adapterVars, dateVars>>

\* The program is started again with the same city, --date and --radius
\* (the same cache key) and any --type; the cache directory stays.
NextRun ==
  /\ pc = "done"
  /\ runs < MaxRuns
  /\ runs' = runs + 1
  /\ opts' \in [type : Types, date : {opts.date}]
  /\ pc' = "start"
  /\ settled' = <<>> /\ settleOrder' = <<>>
  /\ allEvents' = <<>> /\ output' = <<>>
  /\ exitCode' = -1
  /\ UNCHANGED <<cache, cachedFrom>>
  /\ UNCHANGED <<dedupVars, adapterVars, dateVars>>

NextMain ==
  \/ ResolveDates \/ CacheExpired \/ CacheHit \/ Invoke
  \/ (\E i \in Providers : Settle(i)) \/ Resume \/ NextRun

Init == InitMain /\ DedupIdle /\ AdapterIdle /\ DateIdle

Spec == Init /\ [][NextMain]_vars

\* ----------------------------------------------------------------- adapters

MaxFrames == 2

Returned(r) == [kind |-> "return", status |-> r.status, events |-> r.events]

Thrown == [kind |-> "throw", status |-> "none", events |-> <<>>]

NoCompletion == [kind |-> "none", status |-> "none", events |-> <<>>]

\* wrong: the catch block lets the fault through
CatchRethrows == Thrown

\* catch (e) { return { events: [], status: `error: ${e.message}` }; }
Caught == Returned(ErrorResult)

HttpAdapters == {"fetchTicketmaster", "fetchGiessenDe", "fetchMeetup"}

SrcMeetup == <<"m","e","e","t","u","p">>

DescLen == 200

MinNameLen == 3

\* String.prototype.startsWith
StartsWith(s, p) == Len(s) >= Len(p) /\ SubSeq(s, 1, Len(p)) = p

Http == <<"h","t","t","p">>

\* link.startsWith('http') ? link : `${base}${link}`
Absolute(base, link) == IF StartsWith(link, Http) THEN link ELSE base \o link

\* ------------------------------------------------- fetchTicketmaster, mapping

\* One entry of data._embedded.events, the optional chains flattened: an
\* absent field is Null; priced says whether there is a priceRanges array
\* and priceRanges holds its min values.
TmItem(name, dateTime, localDate, venue, line1, city, segment, url,
       priced, priceRanges, info, pleaseNote) ==
  [name |-> name, dateTime |-> dateTime, localDate |-> localDate,
   venue |-> venue, line1 |-> line1, city |-> city, segment |-> segment,
   url |-> url, priced |-> priced, priceRanges |-> priceRanges,
   info |-> info, pleaseNote |-> pleaseNote]

\* The type tag of a lower-cased segment name.
TypeTag(s) ==
  IF s = <<"m","u","s","i","c">> THEN "music"
  ELSE IF s = <<"s","p","o","r","t","s">> THEN "sports"
  ELSE "misc"

\* [line1, city].filter(Boolean).join(', ')
JoinAddress(line1, city) ==
  IF Truthy(line1) /\ Truthy(city) THEN line1 \o <<",", " ">> \o city
  ELSE IF Truthy(line1) THEN line1
  ELSE IF Truthy(city) THEN city
  ELSE <<>>

\* `Ab ${e.priceRanges[0].min}€`
PriceFrom(min) == <<"A","b"," ">> \o min \o <<"€">>

\* The arrow function of data._embedded.events.map
TmEvent(e) ==
  [name |-> e.name,
   date |-> Or(Or(e.dateTime, e.localDate), Null),
   venue |-> Or(e.venue, Null),
   address |-> JoinAddress(e.line1, e.city),
   type |-> IF Truthy(e.segment) THEN TypeTag(ToLowerCase(e.segment)) ELSE "other",
   url |-> e.url,
   price |-> IF e.priced THEN PriceFrom(e.priceRanges[1]) ELSE Null,
   source |-> SrcTicketmaster,
   description |-> Or(SliceTo(OrEmpty(Or(e.info, e.pleaseNote)), DescLen), Null)]

\* e.priceRanges[0].min of an empty priceRanges array throws a TypeError.
TmThrows(items) ==
  \E i \in 1..Len(items) : items[i].priced /\ items[i].priceRanges = <<>>

TmEvents(items) == [i \in 1..Len(items) |-> TmEvent(items[i])]

TmNamed ==
  TmItem(Stadtfest, June1At18, Null, <<"v">>, <<"l">>, <<"c">>,
         <<"M","u","s","i","c">>, <<"u">>, TRUE, <<(<<"1","2">>)>>, Null, <<"n">>)

\* An item without a name.
TmNameless ==
  TmItem(Null, Null, June2, Null, Null, Null, Null, <<"u">>, FALSE, <<>>, Null, Null)

\* An item whose name is white space.
TmBlank ==
  TmItem(<<" ", " ">>, Null, Null, Null, Null, <<"c">>, Null, Null, FALSE, <<>>,
         <<"i">>, Null)

TmNoPrices ==
  TmItem(Konzert, Null, June2, Null, Null, Null, Null, Null, TRUE, <<>>, Null, Null)

TmItems == {TmNamed, TmNameless, TmBlank, TmNoPrices}

\* data._embedded?.events: absent, or a list of items.
TmResponses ==
  {[embedded |-> FALSE, events |-> <<>>]}
    \cup {[embedded |-> TRUE, events |-> items] : items \in EventLists(TmItems)}

\* ------------------------------------------- JSON-LD entries and DOM cards

\* An entry of a JSON-LD script block.
LdItem(atType, name, startDate, locationName, streetAddress, url, free,
       description) ==
  [atType |-> atType, name |-> name, startDate |-> startDate,
   locationName |-> locationName, streetAddress |-> streetAddress,
   url |-> url, free |-> free, description |-> description]

\* A card of the page: the text of its heading (Null without a heading
\* element), the datetime attribute and the text of its time element, the
\* text of its location element and the href of its link.
Card(title, datetime, timeText, venueText, link) ==
  [title |-> title, datetime |-> datetime, timeText |-> timeText,
   venueText |-> venueText, link |-> link]

LdNamed == LdItem("Event", Stadtfest, June1At18, Null, Null, <<"u">>, TRUE, Null)

LdNameless == LdItem("Event", Null, June2, <<"v">>, Null, Null, FALSE, <<"d">>)

LdSocial == LdItem("SocialEvent", <<>>, Null, Null, Null, Null, FALSE, Null)

LdOther == LdItem("Organization", Lesung, Null, Null, Null, Null, FALSE, Null)

CardNamed ==
  Card(<<" ">> \o Konzert \o <<" ">>, Null, <<" ">> \o Morgen, <<"v">>, <<"/","e">>)

CardShort == Card(<<"a", "b", " ">>, June2, <<>>, Null, Null)

CardBlank == Card(<<" ">>, Null, <<>>, Null, Null)

CardUntitled == Card(Null, Null, <<>>, Null, Null)

\* ------------------------------------------------------ fetchMeetup, mapping

MeetupBase ==
  <<"h","t","t","p","s",":","/","/","w","w","w",".","m","e","e","t","u","p",
    ".","c","o","m">>

Kostenlos == <<"K","o","s","t","e","n","l","o","s">>

\* events.push({...}) of the JSON-LD loop
MeetupLdEvent(item) ==
  [name |-> item.name,
   date |-> Or(item.startDate, Null),
   venue |-> Or(item.locationName, Null),
   address |-> Or(item.streetAddress, Null),
   type |-> "meetup",
   url |-> Or(item.url, Null),
   price |-> IF item.free THEN Kostenlos ELSE Null,
   source |-> SrcMeetup,
   description |-> Or(SliceTo(OrEmpty(item.description), DescLen), Null)]

MeetupLd(items) ==
  LET typed == SelectSeq(items, LAMBDA item : item.atType \in {"Event", "SocialEvent"})
  IN [i \in 1..Len(typed) |-> MeetupLdEvent(typed[i])]

\* $el.find(...).first().text().trim(): '' when there is no such element
TextOf(t) == Trim(OrEmpty(t))

\* events.push({...}) of the card loop
MeetupCardEvent(card) ==
  [name |-> TextOf(card.title),
   date |-> Or(Or(card.datetime, TextOf(card.timeText)), Null),
   venue |-> Null,
   address |-> Null,
   type |-> "meetup",
   url |-> IF Truthy(card.link) THEN Absolute(MeetupBase, card.link) ELSE Null,
   price |-> Null,
   source |-> SrcMeetup,
   description |-> Null]

MeetupCards(cards) ==
  LET named == SelectSeq(cards, LAMBDA card : Truthy(TextOf(card.title)))
  IN [i \in 1..Len(named) |-> MeetupCardEvent(named[i])]

\* The JSON-LD loop, then the cards if (events.length === 0).
MeetupEvents(page) ==
  LET ld == MeetupLd(page.jsonLd)
  IN IF ld = <<>> THEN MeetupCards(page.cards) ELSE ld

MeetupPages ==
  [jsonLd : {<<>>, <<LdNamed>>, <<LdOther, LdNameless>>, <<LdSocial>>},
   cards : {<<>>, <<CardNamed>>, <<CardBlank, CardUntitled>>}]

\* --------------------------------------------------- fetchGiessenDe, mapping

GiessenBase == <<"h","t","t","p","s",":","/","/","w","w","w",".","g","i","e","s","s","e","n",".","d","e">>

VeranstaltungenSlash == <<"V","e","r","a","n","s","t","a","l","t","u","n","g","e","n","/">>

IndexPhpQuery == <<"i","n","d","e","x",".","p","h","p","?">>

DotPhp == <<".","p","h","p">>

Uhr == <<"U","h","r">>

Bis == <<" ","b","i","s"," ">>

Giessen == <<"G","i","e","ß","e","n">>

MinDescLen == 10

\* replace(/\s+/g, ' ')
RECURSIVE Collapse(_)
Collapse(s) ==
  IF s = <<>> THEN <<>>
  ELSE IF IsSpace(Head(s)) THEN <<" ">> \o Collapse(TrimStart(s))
  ELSE <<Head(s)>> \o Collapse(Tail(s))

\* $el.text().replace(/\s+/g, ' ').trim()
CleanText(s) == Trim(Collapse(s))

\* The pattern p stands in s at position i.
MatchAt(s, i, p) ==
  i >= 1 /\ i + Len(p) - 1 <= Len(s) /\ SubSeq(s, i, i + Len(p) - 1) = p

\* String.prototype.includes
Contains(s, p) == \E i \in 1..Len(s) : MatchAt(s, i, p)

EndsWith(s, p) == MatchAt(s, Len(s) - Len(p) + 1, p)

\* The first position of a set of positions, 0 when there is none.
Least(S) == IF S = {} THEN 0 ELSE CHOOSE i \in S : \A j \in S : i <= j

\* The first position from i on that holds no white space.
RECURSIVE SkipSpaces(_, _)
SkipSpaces(s, i) ==
  IF i <= Len(s) /\ IsSpace(s[i]) THEN SkipSpaces(s, i + 1) ELSE i

\* The class [^.?] of the slug.
SlugChar(c) == c # "." /\ c # "?"

RECURSIVE SlugEnd(_, _)
SlugEnd(s, i) == IF i <= Len(s) /\ SlugChar(s[i]) THEN SlugEnd(s, i + 1) ELSE i - 1

\* href.match(/Veranstaltungen\/([^.?]+)/): the group, Null without a match.
SlugOf(href) ==
  LET n == Len(VeranstaltungenSlash)
      i == Least({k \in 1..Len(href) :
                    /\ MatchAt(href, k, VeranstaltungenSlash)
                    /\ k + n <= Len(href) /\ SlugChar(href[k + n])})
  IN IF i = 0 THEN Null ELSE SubSeq(href, i + n, SlugEnd(href, i + n))

HexSet == DigitSet \cup {"a","b","c","d","e","f","A","B","C","D","E","F"}

\* decodeURIComponent throws a URIError on a % that starts no escape.
MalformedEscape(s) ==
  \E i \in 1..Len(s) :
    s[i] = "%" /\ ~(i + 2 <= Len(s) /\ s[i + 1] \in HexSet /\ s[i + 2] \in HexSet)

\* decodeURIComponent of a text without escapes.
decodeURIComponent(s) == s

\* replace(/-/g, ' ')
DashesToSpaces(s) == [i \in 1..Len(s) |-> IF s[i] = "-" THEN " " ELSE s[i]]

\* replace(/\.php$/, '')
StripDotPhp(s) ==
  IF EndsWith(s, DotPhp) THEN SubSeq(s, 1, Len(s) - Len(DotPhp)) ELSE s

\* The name from the slug of the link, Null without a slug.
SlugName(href) ==
  IF SlugOf(href) = Null THEN Null
  ELSE Trim(StripDotPhp(DashesToSpaces(decodeURIComponent(SlugOf(href)))))

\* replace(/^©\s*.+?\s{2,}/, ''): the text from © to the end of the first
\* run of two or more spaces that follows at least one character.
StripAttribution(s) ==
  IF s = <<>> \/ s[1] # "©" THEN s
  ELSE LET p == SkipSpaces(s, 2)
           j == Least({k \in (p + 1)..(Len(s) - 1) : IsSpace(s[k]) /\ IsSpace(s[k + 1])})
       IN IF j # 0 THEN SubSeq(s, SkipSpaces(s, j), Len(s))
          ELSE IF p - 2 >= 3 THEN SubSeq(s, p, Len(s))
          ELSE s

\* replace(/^©\s*/, '')
StripCopyright(s) ==
  IF s # <<>> /\ s[1] = "©" THEN TrimStart(Tail(s)) ELSE s

\* The name from the text of the link.
TextName(rawText) == Trim(StripCopyright(StripAttribution(rawText)))

\* if (!name || name.length < 3)
TooShort(name) == ~Truthy(name) \/ Len(name) < MinNameLen

\* let name = ... up to the fallback
NameOf(href, rawText) ==
  IF TooShort(SlugName(href)) THEN TextName(rawText) ELSE SlugName(href)

\* The labels of the navigation links, as the regular expression lists them.
NavigationLabels ==
  {<<"h","e","u","t","e">>,
   <<"m","o","r","g","e","n">>,
   <<"d","i","e","s","e"," ","W","o","c","h","e">>,
   <<"d","i","e","s","e","s"," ","W","o","c","h","e","n","e","n","d","e">>,
   <<"4"," ","W","o","c","h","e","n">>,
   <<"V","e","r","a","n","s","t","a","l","t","u","n","g","e","n">>,
   <<"M","u","s","i","k","a","l","i","s","c","h","e","r"," ","S","o","m","m","e","r">>,
   <<"R","a","u","m","k","a","t","a","s","t","e","r">>,
   <<"i","n","d","e","x">>}

\* /^(heute|...|index)$/i.test(name)
IsNavigationLabel(name) ==
  \E label \in NavigationLabels : ToLowerCase(name) = ToLowerCase(label)

Digit(s, i) == s[i] \in DigitSet

\* \d{2}\.\d{2}\.\d{4} at position i
IsDateAt(s, i) ==
  /\ i >= 1 /\ i + 9 <= Len(s)
  /\ Digit(s, i) /\ Digit(s, i + 1) /\ s[i + 2] = "."
  /\ Digit(s, i + 3) /\ Digit(s, i + 4) /\ s[i + 5] = "."
  /\ \A k \in 6..9 : Digit(s, i + k)

\* \d{2}:\d{2} at position i
IsTimeAt(s, i) ==
  /\ i >= 1 /\ i + 4 <= Len(s)
  /\ Digit(s, i) /\ Digit(s, i + 1) /\ s[i + 2] = ":"
  /\ Digit(s, i + 3) /\ Digit(s, i + 4)

\* \s+ at position i
SpacesAt(s, i) == SkipSpaces(s, i) > i

\* \s*Uhr at position i
UhrAt(s, i) == MatchAt(s, SkipSpaces(s, i), Uhr)

\* \s+bis\s+ at position i: the position behind it, 0 without a match
BisAt(s, i) ==
  LET b == SkipSpaces(s, i)
  IN IF b > i /\ MatchAt(s, b, <<"b","i","s">>) /\ SpacesAt(s, b + 3)
     THEN SkipSpaces(s, b + 3) ELSE 0

\* (\d{2}\.\d{2}\.\d{4})\s+(\d{2}:\d{2})(?:\s+bis\s+(\d{2}:\d{2}))?\s*Uhr at i
SingleAt(s, i) ==
  LET t == SkipSpaces(s, i + 10)
  IN /\ IsDateAt(s, i) /\ t > i + 10 /\ IsTimeAt(s, t)
     /\ \/ (BisAt(s, t + 5) # 0 /\ IsTimeAt(s, BisAt(s, t + 5))
              /\ UhrAt(s, BisAt(s, t + 5) + 5))
        \/ UhrAt(s, t + 5)

\* (\d{2}\.\d{2}\.\d{4})\s+bis\s+(\d{2}\.\d{2}\.\d{4}) at i
RangeAt(s, i) ==
  IsDateAt(s, i) /\ BisAt(s, i + 10) # 0 /\ IsDateAt(s, BisAt(s, i + 10))

Positions(s) == 1..Len(s)

\* parseDateDE of a text DD.MM.YYYY, or DD.MM.YYYY HH:MM when t is a time
parseDateDE(d, t) ==
  SubSeq(d, 7, 10) \o <<"-">> \o SubSeq(d, 4, 5) \o <<"-">> \o SubSeq(d, 1, 2)
    \o <<"T">> \o (IF t = Null THEN <<"0","0",":","0","0">> ELSE t)
    \o <<":","0","0">>

\* let date, dateEnd of the callback: the three patterns in their order.
DatesOf(text) ==
  LET single == Least({i \in Positions(text) : SingleAt(text, i)})
      ranged == Least({i \in Positions(text) : RangeAt(text, i)})
      only == Least({i \in Positions(text) : IsDateAt(text, i)})
  IN IF single # 0
     THEN [date |-> parseDateDE(SubSeq(text, single, single + 9),
                                LET t == SkipSpaces(text, single + 10)
                                IN SubSeq(text, t, t + 4)),
           dateEnd |-> Null]
     ELSE IF ranged # 0
     THEN [date |-> parseDateDE(SubSeq(text, ranged, ranged + 9), Null),
           dateEnd |-> LET e == BisAt(text, ranged + 10)
                       IN parseDateDE(SubSeq(text, e, e + 9), Null)]
     ELSE IF only # 0
     THEN [date |-> parseDateDE(SubSeq(text, only, only + 9), Null),
           dateEnd |-> Null]
     ELSE [date |-> Null, dateEnd |-> Null]

\* new Date(str) for a text YYYY-MM-DDTHH:MM:SS, in local time.
DateOf(s) ==
  IF Len(s) # 19 THEN InvalidDate
  ELSE LET d == DateFields(SubSeq(s, 1, 10))
           t == TimeFields(SubSeq(s, 11, 19))
       IN IF ValidDate(d) /\ ValidTime(t)
          THEN DateAt(DaysFromCivil(d[1], d[2], d[3]),
                      ((t[1] * 60 + t[2]) * 60 + t[3]) * 1000)
          ELSE InvalidDate

\* wrong: an item is kept only when it starts inside the range
StartsInRange(date, dateEnd, r) ==
  date = Null \/ ~(Before(DateOf(date), r.start) \/ Before(r.end, DateOf(date)))

\* if (date) { ... if (eventEndTs < startTs || eventTs > endTs) return; }
PassesDateFilter(date, dateEnd, r) ==
  \/ ~Truthy(date)
  \/ LET eventTs == DateOf(date)
         eventEndTs == IF Truthy(dateEnd) THEN DateOf(dateEnd) ELSE eventTs
     IN ~(Before(eventEndTs, r.start) \/ Before(r.end, eventTs))

Mehr == <<"M","e","h","r">>

Dots == <<".",".",".">>

\* (.+?)(?:\s+Mehr\s*\.\.\.)?$ on the rest of the text: the group.
BeforeMehr(rest) ==
  LET noDots == TrimEnd(SubSeq(rest, 1, Len(rest) - Len(Dots)))
      noMehr == SubSeq(noDots, 1, Len(noDots) - Len(Mehr))
  IN IF EndsWith(rest, Dots) /\ EndsWith(noDots, Mehr)
        /\ TrimEnd(noMehr) # noMehr /\ TrimEnd(noMehr) # <<>>
     THEN TrimEnd(noMehr)
     ELSE rest

\* let description of the callback
DescriptionOf(text) ==
  LET u == Least({i \in Positions(text) :
                    MatchAt(text, i, Uhr) /\ SpacesAt(text, i + 3)
                      /\ SkipSpaces(text, i + 3) <= Len(text)})
      y == Least({i \in Positions(text) :
                    /\ i + 3 <= Len(text) /\ \A k \in 0..3 : Digit(text, i + k)
                    /\ SpacesAt(text, i + 4)
                    /\ Len(text) - SkipSpaces(text, i + 4) + 1 >= MinDescLen})
  IN IF u # 0
     THEN SliceTo(BeforeMehr(SubSeq(text, SkipSpaces(text, u + 3), Len(text))), DescLen)
     ELSE IF y # 0
     THEN SliceTo(SubSeq(text, SkipSpaces(text, y + 4), Len(text)), DescLen)
     ELSE Null

\* name.split(/\d{2}\.\d{2}\.\d{4}/)[0].trim() || name
WrittenName(name) ==
  LET i == Least({k \in Positions(name) : IsDateAt(name, k)})
  IN Or(Trim(IF i = 0 THEN name ELSE SubSeq(name, 1, i - 1)), name)

\* A list item of the page: whether it holds a link to /Veranstaltungen/,
\* the href and the text of that link, and the text of the item.
Li(hasLink, href, linkText, text) ==
  [hasLink |-> hasLink, href |-> href, linkText |-> linkText, text |-> text]

\* The item passes the tests of the name and of the link.
IsCandidate(li) ==
  /\ li.hasLink
  /\ ~TooShort(NameOf(li.href, CleanText(li.linkText)))
  /\ ~IsNavigationLabel(NameOf(li.href, CleanText(li.linkText)))
  /\ ~Contains(li.href, IndexPhpQuery)

\* events.push({...})
GiessenEvent(li) ==
  LET text == CleanText(li.text)
  IN [name |-> WrittenName(NameOf(li.href, CleanText(li.linkText))),
      date |-> DatesOf(text).date,
      venue |-> Null,
      address |-> Giessen,
      type |-> "other",
      url |-> Absolute(GiessenBase, li.href),
      price |-> Null,
      source |-> SrcGiessenDe,
      description |-> DescriptionOf(text)]

\* The callback of $('ul li').each on one item: the events it pushes.
GiessenItem(li, r) ==
  IF IsCandidate(li)
       /\ LET dates == DatesOf(CleanText(li.text))
          IN PassesDateFilter(dates.date, dates.dateEnd, r)
  THEN <<GiessenEvent(li)>>
  ELSE <<>>

RECURSIVE GiessenEvents(_, _)
GiessenEvents(page, r) ==
  IF page = <<>> THEN <<>>
  ELSE GiessenItem(Head(page), r) \o GiessenEvents(Tail(page), r)

\* The callback throws on an item: its slug is no valid URI component.
GiessenThrows(page) ==
  \E i \in 1..Len(page) :
    /\ page[i].hasLink /\ SlugOf(page[i].href) # Null
    /\ MalformedEscape(SlugOf(page[i].href))

\* An item of one evening inside the range.
LiStadtfest ==
  Li(TRUE,
     <<"/","V","e","r","a","n","s","t","a","l","t","u","n","g","e","n","/","S","t","a","d","t","f","e","s","t",".","p","h","p">>,
     <<"S","t","a","d","t","f","e","s","t">>,
     <<"S","t","a","d","t","f","e","s","t"," "," ","0","2",".","0","6",".","2","0","2","6"," ","1","8",":","0","0"," ","b","i","s"," ","2","2",":","0","0"," ","U","h","r"," ","M","u","s","i","k"," ","a","m"," ","M","a","r","k","t"," ","M","e","h","r"," ",".",".",".">>)

\* An item that ended the day before the range starts.
LiMarkt ==
  Li(TRUE,
     <<"/","V","e","r","a","n","s","t","a","l","t","u","n","g","e","n","/","M","a","r","k","t",".","p","h","p">>,
     <<"M","a","r","k","t">>,
     <<"M","a","r","k","t"," ","2","8",".","0","5",".","2","0","2","6"," ","b","i","s"," ","3","1",".","0","5",".","2","0","2","6">>)

\* An item that started earlier and ends on the first day of the range.
LiFest ==
  Li(TRUE,
     <<"/","E","r","l","e","b","e","n","/","V","e","r","a","n","s","t","a","l","t","u","n","g","e","n","/","F","e","s","t","-","a","m","-","S","e","e",".","p","h","p">>,
     <<"F","e","s","t">>,
     <<"F","e","s","t"," ","3","0",".","0","5",".","2","0","2","6"," ","b","i","s"," ","0","1",".","0","6",".","2","0","2","6"," ","r","u","n","d"," ","u","m"," ","d","e","n"," ","S","e","e">>)

\* An item that starts the day after the range ends.
LiKino ==
  Li(TRUE,
     <<"/","V","e","r","a","n","s","t","a","l","t","u","n","g","e","n","/","K","i","n","o",".","p","h","p">>,
     <<"K","i","n","o">>,
     <<"K","i","n","o"," ","0","4",".","0","6",".","2","0","2","6">>)

\* An item without a date.
LiLesung ==
  Li(TRUE,
     <<"/","V","e","r","a","n","s","t","a","l","t","u","n","g","e","n","/","L","e","s","u","n","g",".","p","h","p">>,
     <<"L","e","s","u","n","g">>,
     <<"L","e","s","u","n","g"," ","i","m"," ","P","a","r","k">>)

\* An item whose date is no date of the calendar.
LiBall ==
  Li(TRUE,
     <<"/","V","e","r","a","n","s","t","a","l","t","u","n","g","e","n","/","B","a","l","l",".","p","h","p">>,
     <<"B","a","l","l">>,
     <<"B","a","l","l"," ","3","1",".","1","3",".","2","0","2","6">>)

\* A navigation link, by its slug.
LiDieseWoche ==
  Li(TRUE,
     <<"/","V","e","r","a","n","s","t","a","l","t","u","n","g","e","n","/","D","i","e","s","e","-","W","o","c","h","e",".","p","h","p">>,
     <<"d","i","e","s","e"," ","W","o","c","h","e">>,
     <<"d","i","e","s","e"," ","W","o","c","h","e">>)

\* A navigation link without a slug, its text carries the date shown.
LiHeute ==
  Li(TRUE,
     <<"/","E","r","l","e","b","e","n","/","V","e","r","a","n","s","t","a","l","t","u","n","g","e","n","/","?","t","a","g","=","1">>,
     <<"H","e","u","t","e"," ","0","2",".","0","6",".","2","0","2","6">>,
     <<"H","e","u","t","e"," ","0","2",".","0","6",".","2","0","2","6">>)

\* An item with a short slug and an attribution before its title.
LiCopyright ==
  Li(TRUE,
     <<"/","V","e","r","a","n","s","t","a","l","t","u","n","g","e","n","/","a",".","p","h","p">>,
     <<"©"," "," ","M","a","x"," "," ","K","o","n","z","e","r","t">>,
     <<"©"," "," ","M","a","x"," "," ","K","o","n","z","e","r","t"," ","0","3",".","0","6",".","2","0","2","6">>)

\* A link to an index page.
LiIndex ==
  Li(TRUE,
     <<"/","V","e","r","a","n","s","t","a","l","t","u","n","g","e","n","/","L","i","s","t","e","/","i","n","d","e","x",".","p","h","p","?","i","d","=","3">>,
     <<"A","l","l","e"," ","T","e","r","m","i","n","e">>,
     <<"A","l","l","e"," ","T","e","r","m","i","n","e">>)

\* An item whose slug is no valid URI component.
LiPercent ==
  Li(TRUE,
     <<"/","V","e","r","a","n","s","t","a","l","t","u","n","g","e","n","/","1","0","0","%",".","p","h","p">>,
     <<"R","a","b","a","t","t">>,
     <<"R","a","b","a","t","t"," ","0","2",".","0","6",".","2","0","2","6">>)

\* An item without a link to /Veranstaltungen/.
LiPlain == Li(FALSE, <<>>, <<>>, <<"I","m","p","r","e","s","s","u","m">>)

GiessenItems ==
  {LiStadtfest, LiMarkt, LiFest, LiKino, LiLesung, LiBall, LiDieseWoche,
   LiHeute, LiCopyright, LiIndex, LiPercent, LiPlain}

GiessenPages == EventLists(GiessenItems)

\* ------------------------------------------------------ the HTTP adapters

\* What axios.get can resolve to, reduced to what the adapter reads.
Responses(a) ==
  IF a = "fetchTicketmaster" THEN TmResponses
  ELSE IF a = "fetchGiessenDe" THEN GiessenPages
  ELSE MeetupPages

\* The code after the await throws on this response.
MappingThrows(a, resp) ==
  \/ a = "fetchTicketmaster" /\ resp.embedded /\ TmThrows(resp.events)
  \/ a = "fetchGiessenDe" /\ GiessenThrows(resp)

\* The events the code after the await builds from the response.
MappedEvents(a, resp, r) ==
  IF a = "fetchTicketmaster"
  THEN (IF resp.embedded THEN TmEvents(resp.events) ELSE <<>>)
  ELSE IF a = "fetchGiessenDe" THEN GiessenEvents(resp, r)
  ELSE MeetupEvents(resp)

\* The call up to await axios.get: without an API key fetchTicketmaster
\* returns its skip result at once.
StartHttp ==
  /\ adapter \in HttpAdapters /\ at = "start"
  /\ IF adapter = "fetchTicketmaster" /\ ~arg.apiKey
     THEN result' = Returned(SkipResult) /\ at' = "ended"
     ELSE at' = "request" /\ UNCHANGED result
  /\ UNCHANGED <<adapter, arg, response, browser, session, frames, found, completion>>
  /\ UNCHANGED <<dedupVars, mainVars, dateVars>>

\* axios.get rejects (network fault, timeout, HTTP status).
HttpFails ==
  /\ adapter \in HttpAdapters /\ at = "request"
  /\ result' = Caught /\ at' = "ended"
  /\ UNCHANGED <<adapter, arg, response, browser, session, frames, found, completion>>
  /\ UNCHANGED <<dedupVars, mainVars, dateVars>>

\* axios.get resolves.
HttpResponds ==
  /\ adapter \in HttpAdapters /\ at = "request"
  /\ response' \in {<<resp>> : resp \in Responses(adapter)}
  /\ at' = "response"
  /\ UNCHANGED <<adapter, arg, browser, session, frames, found, completion, result>>
  /\ UNCHANGED <<dedupVars, mainVars, dateVars>>

\* The response is mapped to events and the result is returned.
ParseOk ==
  /\ adapter \in HttpAdapters /\ at = "response"
  /\ ~MappingThrows(adapter, response[1])
  /\ result' = Returned(OkResult(MappedEvents(adapter, response[1], range[1])))
  /\ at' = "ended"
  /\ UNCHANGED <<adapter, arg, response, browser, session, frames, found, completion>>
  /\ UNCHANGED <<dedupVars, mainVars, dateVars>>

\* The code that reads the response throws (a priceRanges array without
\* entries, a slug decodeURIComponent rejects).
ParseThrows ==
  /\ adapter \in HttpAdapters /\ at = "response"
  /\ MappingThrows(adapter, response[1])
  /\ result' = Caught /\ at' = "ended"
  /\ UNCHANGED <<adapter, arg, response, browser, session, frames, found, completion>>
  /\ UNCHANGED <<dedupVars, mainVars, dateVars>>

\* ------------------------------------------------------------ fetchDeskline

Marburg == <<"M","a","r","b","u","r","g">>

Wetzlar == <<"W","e","t","z","l","a","r">>

CITIES ==
  [marburg |-> [name |-> Marburg, source |-> <<"m","a","r","b","u","r","g",".","d","e">>],
   wetzlar |-> [name |-> Wetzlar, source |-> <<"w","e","t","z","l","a","r",".","d","e">>]]

CityKeys == {"marburg", "wetzlar", "giessen"}

\* An entry pushed by the extraction code that runs in the page.
Raw(name, date, venue, address, url, description) ==
  [name |-> name, date |-> date, venue |-> venue, address |-> address,
   url |-> url, description |-> description]

\* events.push({...}) of the JSON-LD loop in the frame
DesklineLdEvent(item) ==
  Raw(item.name, Or(item.startDate, Null), Or(item.locationName, Null),
      Or(item.streetAddress, Null), Or(item.url, Null),
      SliceTo(OrEmpty(item.description), DescLen))

DesklineLd(items) ==
  LET typed == SelectSeq(items, LAMBDA item : item.atType = "Event")
  IN [i \in 1..Len(typed) |-> DesklineLdEvent(typed[i])]

\* (el.querySelector(...) || {}).textContent?.trim(): undefined without the
\* element
TrimmedText(t) == IF t = Null THEN Null ELSE Trim(t)

\* if (!name || name.length < 3) continue
UsableName(name) == Truthy(name) /\ Len(name) >= MinNameLen

\* dateEl?.getAttribute('datetime') || dateEl?.textContent?.trim() || null
CardDate(card) == Or(Or(card.datetime, TrimmedText(card.timeText)), Null)

\* events.push({ name, date, venue, address: null, url, description: null })
DesklineCardEvent(card) ==
  Raw(TrimmedText(card.title), CardDate(card),
      Or(TrimmedText(card.venueText), Null), Null, Or(card.link, Null), Null)

DesklineCards(cards) ==
  LET named == SelectSeq(cards, LAMBDA card : UsableName(TrimmedText(card.title)))
  IN [i \in 1..Len(named) |-> DesklineCardEvent(named[i])]

\* events.push({...}) of page.evaluate on the main document
MainCardEvent(card) ==
  Raw(TrimmedText(card.title), CardDate(card), Null, Null, Or(card.link, Null), Null)

MainCards(cards) ==
  LET named == SelectSeq(cards, LAMBDA card : UsableName(TrimmedText(card.title)))
  IN [i \in 1..Len(named) |-> MainCardEvent(named[i])]

FrameLd == {<<>>, <<LdNamed>>, <<LdNameless>>, <<LdOther>>}

FrameCards == {<<>>, <<CardNamed>>, <<CardShort, CardUntitled>>}

\* A frame of the page: whether its url contains "deskline", the entries of
\* its JSON-LD blocks and the elements of its best-matching selector.
Frames ==
  {[deskline |-> FALSE, jsonLd |-> <<>>, cards |-> <<>>]}
    \cup [deskline : {TRUE}, jsonLd : FrameLd, cards : FrameCards]

FrameLists == UNION {[1..n -> Frames] : n \in 0..MaxFrames}

\* The frame's result under a cascade in which the first tier that is not
\* empty wins: the cards count only when JSON-LD gave no event.
ExtractedCascade(frame) ==
  IF DesklineLd(frame.jsonLd) # <<>> THEN DesklineLd(frame.jsonLd)
  ELSE DesklineCards(frame.cards)

\* frame.evaluate: the JSON-LD events, then the events of the cards.
Extracted(frame) == DesklineLd(frame.jsonLd) \o DesklineCards(frame.cards)

\* events.map(e => ({...})) of fetchDeskline
Normalize(raws, city) ==
  [i \in 1..Len(raws) |->
     Event(raws[i].name, raws[i].date, raws[i].venue,
           IF Truthy(raws[i].address) THEN raws[i].address ELSE city.name,
           raws[i].url, Null, city.source, raws[i].description)]

\* wrong: the browser is closed at the end of the try block only
ClosesOnSuccess(b, c) == b = "launched" /\ c.status = "ok"

\* finally { if (browser) await browser.close()... }
FinallyCloses(b, c) == b = "launched"

\* A fault inside the try block of fetchDeskline.
DesklineFault ==
  /\ completion' = Caught
  /\ at' = "finally"

\* const city = CITIES[cityKey]; if (!city) return ...; then puppeteer.launch
DesklineLookup ==
  /\ adapter = "fetchDeskline" /\ at = "start"
  /\ IF arg.cityKey \notin DOMAIN CITIES
     THEN result' = Returned(ErrorResult) /\ at' = "ended"
     ELSE at' = "launch" /\ UNCHANGED result
  /\ UNCHANGED <<adapter, arg, response, browser, session, frames, found, completion>>
  /\ UNCHANGED <<dedupVars, mainVars, dateVars>>

\* await puppeteer.launch(...)
Launch ==
  /\ adapter = "fetchDeskline" /\ at = "launch"
  /\ \/ /\ browser' = "launched" /\ session' = "open"
        /\ at' = "newPage" /\ UNCHANGED completion
     \/ DesklineFault /\ UNCHANGED <<browser, session>>
  /\ UNCHANGED <<adapter, arg, response, frames, found, result>>
  /\ UNCHANGED <<dedupVars, mainVars, dateVars>>

\* await browser.newPage(), page.setUserAgent(...), page.goto(...)
PageSetup ==
  /\ adapter = "fetchDeskline" /\ at \in {"newPage", "setUserAgent", "goto"}
  /\ \/ /\ at' = (CASE at = "newPage" -> "setUserAgent"
                    [] at = "setUserAgent" -> "goto"
                    [] at = "goto" -> "waitForSelector")
        /\ UNCHANGED completion
     \/ DesklineFault
  /\ UNCHANGED <<adapter, arg, response, browser, session, frames, found, result>>
  /\ UNCHANGED <<dedupVars, mainVars, dateVars>>

\* await page.waitForSelector(...).catch(() => null), which cannot fail;
\* then page.frames() and let events = [].
WaitForIframe ==
  /\ adapter = "fetchDeskline" /\ at = "waitForSelector"
  /\ frames' \in FrameLists
  /\ found' = <<>>
  /\ at' = "frames"
  /\ UNCHANGED <<adapter, arg, response, browser, session, completion, result>>
  /\ UNCHANGED <<dedupVars, mainVars, dateVars>>

\* The head of the for loop: a frame that is not the widget is skipped, the
\* widget's frame is waited for; after the last frame the code goes on to
\* the fallback or to the normalisation.
VisitFrame ==
  /\ adapter = "fetchDeskline" /\ at = "frames"
  /\ IF frames # <<>>
     THEN /\ IF Head(frames).deskline
             THEN at' = "frameWait" /\ UNCHANGED frames
             ELSE frames' = Tail(frames) /\ UNCHANGED at
          /\ UNCHANGED completion
     ELSE /\ IF found = <<>>
             THEN at' = "settle" /\ UNCHANGED completion
             ELSE /\ completion' =
                       Returned(OkResult(Normalize(found, CITIES[arg.cityKey])))
                  /\ at' = "finally"
          /\ UNCHANGED frames
  /\ UNCHANGED <<adapter, arg, response, browser, session, found, result>>
  /\ UNCHANGED <<dedupVars, mainVars, dateVars>>

\* await frame.waitForSelector(...).catch(() => null)
FrameWait ==
  /\ adapter = "fetchDeskline" /\ at = "frameWait"
  /\ at' = "evaluate"
  /\ UNCHANGED <<adapter, arg, response, browser, session, frames, found, completion, result>>
  /\ UNCHANGED <<dedupVars, mainVars, dateVars>>

\* await frame.evaluate(...); events.push(...extracted)
FrameEvaluate ==
  /\ adapter = "fetchDeskline" /\ at = "evaluate"
  /\ \/ /\ found' = found \o Extracted(Head(frames))
        /\ frames' = Tail(frames)
        /\ at' = "frames"
        /\ UNCHANGED completion
     \/ DesklineFault /\ UNCHANGED <<frames, found>>
  /\ UNCHANGED <<adapter, arg, response, browser, session, result>>
  /\ UNCHANGED <<dedupVars, mainVars, dateVars>>

\* await new Promise(r => setTimeout(r, 3000))
SettleDelay ==
  /\ adapter = "fetchDeskline" /\ at = "settle"
  /\ at' = "mainEvaluate"
  /\ UNCHANGED <<adapter, arg, response, browser, session, frames, found, completion, result>>
  /\ UNCHANGED <<dedupVars, mainVars, dateVars>>

\* await page.evaluate(...); events.push(...mainEvents); normalise; return
MainEvaluate ==
  /\ adapter = "fetchDeskline" /\ at = "mainEvaluate"
  /\ \/ \E cards \in FrameCards :
          /\ found' = found \o MainCards(cards)
          /\ completion' =
               Returned(OkResult(Normalize(found', CITIES[arg.cityKey])))
          /\ at' = "finally"
     \/ DesklineFault /\ UNCHANGED found
  /\ UNCHANGED <<adapter, arg, response, browser, session, frames, result>>
  /\ UNCHANGED <<dedupVars, mainVars, dateVars>>

\* The finally block up to await browser.close(); without a browser the
\* call ends with the completion of the try or catch block.
Finally ==
  /\ adapter = "fetchDeskline" /\ at = "finally"
  /\ IF FinallyCloses(browser, completion)
     THEN session' = "closing" /\ at' = "closing" /\ UNCHANGED result
     ELSE result' = completion /\ at' = "ended" /\ UNCHANGED session
  /\ UNCHANGED <<adapter, arg, response, browser, frames, found, completion>>
  /\ UNCHANGED <<dedupVars, mainVars, dateVars>>

\* browser.close() settles; .catch(() => {}) swallows its rejection. The
\* call then ends with the completion of the try or catch block.
CloseSettles ==
  /\ adapter = "fetchDeskline" /\ at = "closing"
  /\ session' \in {"closed", "close failed"}
  /\ result' = completion
  /\ at' = "ended"
  /\ UNCHANGED <<adapter, arg, response, browser, frames, found, completion>>
  /\ UNCHANGED <<dedupVars, mainVars, dateVars>>

\* The values of --date the adapters are called under: three days, one day.
CalledWith == {Pair(June1, June3), June2}

InitAdapters ==
  /\ MainIdle /\ DedupIdle
  /\ adapter \in HttpAdapters \cup {"fetchDeskline"}
  /\ arg \in [apiKey : BOOLEAN, cityKey : CityKeys \cup {"none"}]
  /\ arg.apiKey => adapter = "fetchTicketmaster"
  /\ (arg.cityKey # "none") <=> (adapter = "fetchDeskline")
  /\ now = DateAt(FirstDay, 0)
  /\ dateStr \in (IF adapter = "fetchGiessenDe" THEN CalledWith ELSE {June2})
  /\ range = <<getDateRange(dateStr, now)>>
  /\ response = <<>>
  /\ at = "start" /\ browser = "undefined" /\ session = "none"
  /\ frames = <<>> /\ found = <<>>
  /\ completion = NoCompletion /\ result = NoCompletion

NextAdapters ==
  \/ StartHttp \/ HttpFails \/ HttpResponds \/ ParseOk \/ ParseThrows
  \/ DesklineLookup \/ Launch \/ PageSetup \/ WaitForIframe \/ VisitFrame
  \/ FrameWait \/ FrameEvaluate \/ SettleDelay \/ MainEvaluate
  \/ Finally \/ CloseSettles

SpecAdapters == InitAdapters /\ [][NextAdapters]_vars

\* ------------------------------------------------- properties of adapters

\* C4: every adapter call ends by returning a ProviderResult, never by
\* throwing, whatever fault occurs inside; an error result has no events.
C4_AlwaysAResult ==
  at = "ended" =>
    /\ result.kind = "return"
    /\ result.status \in {"ok", "skip", "error"}
    /\ result.status = "error" => result.events = <<>>

\* fetchDeskline ended with an error result after a fault that struck when
\* events had already been extracted from a frame.
C4_Witness ==
  /\ at = "ended" /\ adapter = "fetchDeskline"
  /\ result.kind = "return" /\ result.status = "error" /\ result.events = <<>>
  /\ found # <<>>

\* C5: on every exit path of fetchDeskline a browser that was launched has
\* had close requested and awaited before the result is delivered.
C5_BrowserClosed ==
  (adapter = "fetchDeskline" /\ at = "ended" /\ browser = "launched")
    => session \in {"closed", "close failed"}

\* The call ended after a fault inside the try block and a failing close.
C5_Witness ==
  /\ adapter = "fetchDeskline" /\ at = "ended" /\ browser = "launched"
  /\ result.status = "error" /\ session = "close failed"

\* A usable name: present and not empty after trimming.
NonEmptyName(name) == name # Null /\ Trim(name) # <<>>

\* C11: every event that leaves an adapter has a non-empty name after
\* trimming: an item without a usable name is dropped by the adapter.
C11_NamesNonEmpty ==
  (at = "ended" /\ result.kind = "return") =>
    \A i \in 1..Len(result.events) : NonEmptyName(result.events[i].name)

\* The first and the last day of the range the adapter is called with, as
\* the date expression writes them.
FirstDayText == Split(dateStr, ":")[1]

LastDayText == Split(dateStr, ":")[Len(Split(dateStr, ":"))]

\* a is before b, for two texts YYYY-MM-DDTHH:MM:SS: at the first position
\* where they differ, a has the smaller digit.
LexBefore(a, b) ==
  \E i \in 1..Len(a) :
    /\ SubSeq(a, 1, i - 1) = SubSeq(b, 1, i - 1)
    /\ a[i] # b[i] /\ DigitOf[a[i]] < DigitOf[b[i]]

\* The text is a date of the calendar with a time of the day.
IsCalendarTime(s) ==
  Len(s) = 19 /\ IsIsoDate(SubSeq(s, 1, 10)) /\ ValidTime(TimeFields(SubSeq(s, 11, 19)))

\* What the claim says of an item with the extracted start and end: without
\* a date it is kept; with one it is kept exactly when its effective end is
\* not before the first midnight of the range and its start is not after the
\* last second of the range.
ClaimKeeps(dates) ==
  IF dates.date = Null \/ ~IsCalendarTime(dates.date) THEN TRUE
  ELSE LET effectiveEnd == IF dates.dateEnd # Null THEN dates.dateEnd ELSE dates.date
       IN /\ ~LexBefore(effectiveEnd, FirstDayText \o <<"T","0","0",":","0","0",":","0","0">>)
          /\ ~LexBefore(LastDayText \o <<"T","2","3",":","5","9",":","5","9">>, dates.date)

\* The item is in the result: the result holds an event with its link.
Emitted(li) ==
  \E k \in 1..Len(result.events) : result.events[k].url = GiessenBase \o li.href

\* C15: fetchGiessenDe keeps a candidate item with an extracted date if and
\* only if its effective end (its end, or its start without one) is not
\* before the start of the range and its start is not after the end of the
\* range; a candidate without an extracted date is never left out.
C15_DateFilter ==
  (adapter = "fetchGiessenDe" /\ at = "ended" /\ result.status = "ok") =>
    \A i \in 1..Len(response[1]) :
      IsCandidate(response[1][i]) =>
        (Emitted(response[1][i])
           <=> ClaimKeeps(DatesOf(CleanText(response[1][i].text))))

\* Called for 1 to 3 June with an item that ended on 31 May and an item that
\* started on 30 May and ends on 1 June: the second one is the result.
C15_Witness ==
  /\ adapter = "fetchGiessenDe" /\ at = "ended" /\ result.status = "ok"
  /\ dateStr = Pair(June1, June3)
  /\ response = <<(<<LiMarkt, LiFest>>)>>
  /\ Len(result.events) = 1
  /\ result.events[1].date = <<"2","0","2","6","-","0","5","-","3","0","T","0","0",":","0","0",":","0","0">>

\* C16: no event of fetchGiessenDe has, as its name is written into the
\* record, the name of a navigation label (compared without case).
C16_NoNavigationLabel ==
  (adapter = "fetchGiessenDe" /\ at = "ended") =>
    \A k \in 1..Len(result.events) :
      \A label \in NavigationLabels :
        ToLowerCase(result.events[k].name) # ToLowerCase(label)

\* C17: within a widget frame the two tiers form a cascade: when JSON-LD
\* yields an event the frame adds the JSON-LD events only, and the events of
\* the cards are added only when JSON-LD yielded none.
C17_FrameCascade ==
  [][(adapter = "fetchDeskline" /\ at = "evaluate" /\ at' = "frames")
       => found' = found \o ExtractedCascade(Head(frames))]_vars

\* ------------------------------------------------------ properties of main

\* C1: join-all: while a provider is still pending nothing of the combined
\* result exists (no allEvents, no cache entry, no output, no end of the
\* run), whatever the outcomes and the order of completion of the others.
C1_JoinAll ==
  (\E i \in 1..Len(settled) : settled[i].state = "pending")
    => (pc = "awaiting" /\ allEvents = <<>> /\ cache = <<>> /\ output = <<>>)

\* The run ended with a result although the first provider to settle had
\* been rejected.
C1_Witness ==
  /\ pc = "done" /\ output # <<>> /\ cache # <<>> /\ Len(settleOrder) = 2
  /\ settled[settleOrder[1]].state = "rejected"
  /\ settled[settleOrder[2]].state = "fulfilled"
  /\ settled[settleOrder[2]].value.events # <<>>

\* C2: the sequence handed to dedup is the concatenation of the providers'
\* event lists in configuration order, whatever the order of completion.
C2_ConfigurationOrder ==
  (pc = "done" /\ settled # <<>>)
    => allEvents = Contribution(settled[1]) \o Contribution(settled[2])

\* Both providers returned events and the second one completed first.
C2_Witness ==
  /\ pc = "done" /\ settleOrder = <<2, 1>>
  /\ Contribution(settled[1]) # <<>> /\ Contribution(settled[2]) # <<>>

Failed(p) == p.state = "rejected" \/ p.value.status = "error"

RECURSIVE EventsOfWorking(_, _)
EventsOfWorking(ps, k) ==
  IF k > Len(ps) THEN <<>>
  ELSE (IF Failed(ps[k]) THEN <<>> ELSE ps[k].value.events)
         \o EventsOfWorking(ps, k + 1)

C13_MalformedRejected ==
  (pc # "start" /\ ~AcceptedExpr(opts.date)) =>
    (pc = "done" /\ exitCode > 0 /\ output = <<>>)

\* The run was served from the cache, and the provider results behind the
\* entry are known.
ServedFromCache ==
  pc = "done" /\ exitCode = 0 /\ settled = <<>> /\ cachedFrom # <<>>

PassesTypeFilter(e, type) == type = "all" \/ e.type = type \/ e.type = "other"

\* C18: a run served from the cache prints the list a run without a cache
\* hit would print with its own options from the same provider results; in
\* particular every event it prints passes its own filter of --type.
C18_CacheRespectsOptions ==
  ServedFromCache =>
    /\ output = <<Shown(Collect(cachedFrom), opts.type)>>
    /\ \A i \in 1..Len(output[1]) : PassesTypeFilter(output[1][i], opts.type)

====
